---- MODULE Spec2Model ----
(***************************************************************************)
(* Model of experiments/generalised_parity/generalised_parity_anode.py:    *)
(* one training-and-evaluation run of a (augmented) neural ODE, the files  *)
(* it reads and writes, and the VectorField call counter.                  *)
(*                                                                         *)
(* Tensors whose numeric content is produced by the external solver, the   *)
(* autograd engine or the optimizer are free terms (records naming the     *)
(* operation and its operands): two such values are equal in the model     *)
(* only when they are the same function of the same inputs.                *)
(***************************************************************************)
EXTENDS Integers, Sequences, FiniteSets, TLC

\* ----------------------------------------------------------------- bounds
MaxIters == 2      \* --niters is drawn from 1..MaxIters
MaxExtra == 1      \* --extra_dim is drawn from 0..MaxExtra
MaxDim == 2        \* --data_dimension is drawn from 1..MaxDim
MaxExp == 1        \* results.npy has MaxExp experiment slots
NTrain == 2        \* --ntrain
NTest == 1         \* --ntest
MaxSeed == 1       \* numpy's generator starts in a state of 1..MaxSeed
MaxExtraCalls == 1 \* VectorField calls beyond one per solve, over a behaviour
MaxClock == 1      \* ticks of the wall clock over a behaviour

\* ------------------------------------------------------ program constants
DefaultTol == "1e-3"
DefaultLr == "0.01"
ScaleFactor == -1
NodeDir == "node."
AnodeDir == "anode."
ArtifactNames == {"itr_arr.npy", "nfe_arr.npy", "loss_arr.npy", "time_arr.npy", "model.pth"}
SolverDefault == "solver default"
Missing == [missing |-> TRUE]

\* shape of the externally managed results array
ResDims == MaxDim
ResExps == MaxExp

\* ------------------------------------------------------------- tensors
\* a matrix is a sequence of rows, a row a sequence of entries
Rows(m) == Len(m)
Width(m) == IF Len(m) = 0 THEN 0 ELSE Len(m[1])

\* numpy's generator: the state advances once per number drawn
NextRng(s) == (5 * s + 3) % 16
RngAfter(s, n) ==
  LET RECURSIVE go(_, _)
      go(st, k) == IF k = 0 THEN st ELSE go(NextRng(st), k - 1)
  IN go(s, n)
Sample(s) == NextRng(s) \div 8

\* np.random.rand(n, d): n*d successive draws, row-major
np_random_rand(s, n, d) ==
  [i \in 1..n |-> [j \in 1..d |-> Sample(RngAfter(s, (i - 1) * d + (j - 1)))]]

\* m*2 - 1 and m*scale_factor, elementwise
Affine(m, a, b) == [i \in 1..Len(m) |-> [j \in 1..Len(m[i]) |-> m[i][j] * a + b]]

torch_zeros(n, d) == [i \in 1..n |-> [j \in 1..d |-> 0]]

\* torch.cat((a, b), dim=1)
torch_cat(a, b) == [i \in 1..Len(a) |-> a[i] \o b[i]]

\* torch.arange(d).repeat(n, 1)
MakeIds(n, d) == [i \in 1..n |-> [j \in 1..d |-> j - 1]]

\* z0, zN as lines 90-97 and 163-169 build them
MakeZ0Plain(s, n, a) == Affine(np_random_rand(s, n, a.data_dimension), 2, -1)
MakeZN(s, n, a) == Affine(MakeZ0Plain(s, n, a), a.scale_factor, 0)
\* faulty variant: the zero columns are never appended
MakeZ0_unaugmented(s, n, a) == MakeZ0Plain(s, n, a)
MakeZ0(s, n, a) == torch_cat(MakeZ0Plain(s, n, a), torch_zeros(n, a.extra_dim))

\* ODEfunc(dim, nhidden) freshly initialised from torch's generator
ODEfunc_init(dim, ts) == [op |-> "init", dim |-> dim, nhidden |-> 20, seed |-> ts]

\* the Linear layers accept a state only of the width they were built for
ParamsDim(p) ==
  LET RECURSIVE go(_)
      go(q) == IF q.op = "init" THEN q.dim ELSE go(q.prev)
  IN go(p)

\* number of optimizer steps a parameter value has been through
Steps(p) ==
  LET RECURSIVE go(_)
      go(q) == IF q.op = "init" THEN 0 ELSE 1 + go(q.prev)
  IN go(p)

\* odeint(func, y0, [t0, tN], rtol, atol)[1]: the endpoint, same shape as y0
Endpoint(p, y0, rtol, atol) ==
  [op |-> "odeint", func |-> p, y0 |-> y0, t0 |-> 0, tN |-> 1, rtol |-> rtol, atol |-> atol]

\* out.gather(1, indices): shaped like indices, every index a column of out
Gather(end, indices) == [op |-> "gather", src |-> end, index |-> indices]
GatherOk(end, indices) ==
  /\ Rows(indices) <= Rows(end.y0)
  /\ \A i \in 1..Len(indices) : \A j \in 1..Len(indices[i]) :
        indices[i][j] \in 0..(Width(end.y0) - 1)
PredWidth(pred) == Width(pred.index)
PredRows(pred) == Rows(pred.index)

\* nn.MSELoss()(input, target)
MSELoss(input, target) == [op |-> "mse", input |-> input, target |-> target]

\* one Adam update from the accumulated gradient
AdamStep(p, g, lr) == [op |-> "adam", prev |-> p, grad |-> g, lr |-> lr]

\* np.empty(n): n cells, none of them written yet
np_empty(n) == [len |-> n, data |-> <<>>]
Written(arr) == DOMAIN arr.data
Store(arr, k, v) ==
  [arr EXCEPT !.data = [i \in (DOMAIN arr.data) \cup {k} |-> IF i = k THEN v ELSE arr.data[i]]]

\* a float32 scalar stored into a float64 array cell
ToFloat64(x) == [dtype |-> "float64", of |-> x]


\* ---------------------------------------------------------------- state
VARIABLES
  args,            \* the parsed command line
  pc,              \* the statement the process executes next
  failure,         \* the exception that ended the run, if any
  resultsFile,     \* results.npy on disk
  dirs,            \* directories on disk
  files,           \* artifact files on disk: <<directory, name>> -> content
  np_seed,         \* state of numpy's generator at process start
  rng,             \* state of numpy's generator
  torch_seed,      \* state of torch's generator when the model is built
  now,             \* the wall clock, time.time()
  memo,            \* solver inputs seen so far -> VectorField calls they took
  extra,           \* VectorField calls so far beyond one per solve with new inputs
  filename, dim, z0, zN, ids, params, nfe, grad, itr, pred_z, loss,
  itr_arr, loss_arr, nfe_arr, time_arr, iter_start_time, iter_end_time,
  results, first_index,
  calls,           \* history: VectorField invocations of this run
  callsAtReset,    \* history: calls when the current iteration's reset finished
  stepLog,         \* history: statements of the current iteration, in order run
  tAfterReset,     \* history: clock when the reset finished
  tAfterStep,      \* history: clock when the optimizer step finished
  wcount,          \* history: writes to each metric array cell
  vfWidths,        \* history: widths of the states handed to the VectorField
  solves,          \* history: the solver calls of this run, in order
  loaded,          \* history: the results array as np.load returned it
  saves,           \* history: writes of results.npy by this run
  written,         \* history: artifact files written by this run
  prev             \* history: the previous run of the pair, if any

vars == <<args, pc, failure, resultsFile, dirs, files, np_seed, rng, torch_seed, now, memo, extra,
          filename, dim, z0, zN, ids, params, nfe, grad, itr, pred_z, loss,
          itr_arr, loss_arr, nfe_arr, time_arr, iter_start_time, iter_end_time,
          results, first_index, calls, callsAtReset, stepLog, tAfterReset, tAfterStep,
          wcount, vfWidths, solves, loaded, saves, written, prev>>

NoneVal == [none |-> TRUE]

\* faulty variant: the timer is started before the counter is reset
Order_timer_first ==
  << "makedirs", "train_data", "build", "loop",
     "timer_start", "reset", "zero_grad", "forward", "loss", "backward", "step",
     "timer_stop", "record",
     "load", "first_index", "train_loss", "save_artifacts",
     "test_data", "test_forward", "test_loss", "save_results", "done" >>

\* faulty variant: results.npy is loaded when the process starts
Order_load_first ==
  << "load", "makedirs", "train_data", "build", "loop",
     "reset", "timer_start", "zero_grad", "forward", "loss", "backward", "step",
     "timer_stop", "record",
     "first_index", "train_loss", "save_artifacts",
     "test_data", "test_forward", "test_loss", "save_results", "done" >>

\* faulty variant: the test batch is drawn before the train loss is reported
Order_test_data_early ==
  << "makedirs", "train_data", "build", "loop",
     "reset", "timer_start", "zero_grad", "forward", "loss", "backward", "step",
     "timer_stop", "record",
     "load", "first_index", "test_data", "train_loss", "save_artifacts",
     "test_forward", "test_loss", "save_results", "done" >>

\* the statements of __main__ in program order; "loop" is the for statement
Order ==
  << "makedirs", "train_data", "build", "loop",
     "reset", "timer_start", "zero_grad", "forward", "loss", "backward", "step",
     "timer_stop", "record",
     "load", "first_index", "train_loss", "save_artifacts",
     "test_data", "test_forward", "test_loss", "save_results", "done" >>

IndexOf(p) == CHOOSE i \in 1..Len(Order) : Order[i] = p
After(p) == Order[IndexOf(p) + 1]

\* the statements of one iteration during which wall-clock time passes
TickPcs == {"reset", "forward", "record"}

\* ------------------------------------------------------- command line
ArgSpace ==
  [ tol : {DefaultTol}, adjoint : BOOLEAN, niters : 1..MaxIters, lr : {DefaultLr},
    extra_dim : 0..MaxExtra, data_dimension : 1..MaxDim, scale_factor : {ScaleFactor},
    ntrain : {NTrain}, ntest : {NTest}, experiment_no : {MaxExp, MaxExp + 1} ]

\* results.npy as an earlier, out-of-band step left it
Cells == (0..1) \X (0..1) \X (0..(ResDims - 1)) \X (0..(ResExps - 1))
InitialResults == [c \in Cells |-> ToFloat64([op |-> "initial", cell |-> c])]

InitProcess ==
  /\ pc = Order[1]
  /\ failure = "none"
  /\ now = 0
  /\ extra = 0
  /\ filename = NoneVal /\ dim = NoneVal /\ z0 = NoneVal /\ zN = NoneVal /\ ids = NoneVal
  /\ params = NoneVal /\ nfe = 0 /\ grad = <<>> /\ itr = 0
  /\ pred_z = NoneVal /\ loss = NoneVal
  /\ itr_arr = NoneVal /\ loss_arr = NoneVal /\ nfe_arr = NoneVal /\ time_arr = NoneVal
  /\ iter_start_time = NoneVal /\ iter_end_time = NoneVal
  /\ results = NoneVal /\ first_index = NoneVal
  /\ calls = 0 /\ callsAtReset = 0 /\ stepLog = <<>>
  /\ tAfterReset = 0 /\ tAfterStep = 0
  /\ wcount = <<>> /\ vfWidths = {} /\ solves = <<>>
  /\ loaded = <<>> /\ saves = 0 /\ written = {}

Init ==
  /\ args \in ArgSpace
  /\ np_seed = MaxSeed
  /\ rng = np_seed
  /\ torch_seed = MaxSeed
  /\ resultsFile \in {Missing, InitialResults}
  /\ dirs = {}
  /\ files = <<>>
  /\ memo = <<>>
  /\ prev = NoneVal
  /\ InitProcess

\* two runs one after the other on the same disk. The pair is about where runs
\* write and what they record, so it trains for one or two iterations
PairArgSpace ==
  [ tol : {DefaultTol}, adjoint : BOOLEAN, niters : {1, 2}, lr : {DefaultLr},
    extra_dim : 0..MaxExtra, data_dimension : {1}, scale_factor : {ScaleFactor},
    ntrain : {NTrain}, ntest : {NTest}, experiment_no : {MaxExp, MaxExp + 1} ]

InitPair ==
  /\ args \in PairArgSpace
  /\ np_seed = 1
  /\ rng = np_seed
  /\ torch_seed = 1
  /\ resultsFile \in {Missing, InitialResults}
  /\ dirs = {}
  /\ files = <<>>
  /\ memo = <<>>
  /\ prev = NoneVal
  /\ InitProcess

\* ------------------------------------------------------------ helpers
\* faulty variant: every run uses the same directory
ArtifactDir_same(a) == NodeDir

\* lines 79-82: the artifact directory of a run
ArtifactDir(a) == IF a.extra_dim = 0 THEN NodeDir ELSE AnodeDir

\* lines 142-145: the augmentation slot of the results array
FirstIndex(a) == IF a.extra_dim = 0 THEN 0 ELSE 1

\* faulty variant: the train/test index is always 0
ResultCell_nosplit(fi, split, a) == <<fi, 0, a.data_dimension - 1, a.experiment_no - 1>>

\* results[first_index][split][data_dimension-1][experiment_no-1]
ResultCell(fi, split, a) == <<fi, split, a.data_dimension - 1, a.experiment_no - 1>>

\* faulty variant: range(1, niters)
RangeHasNext_short(i, a) == i < a.niters - 1

\* range(1, niters + 1) has a value after i
RangeHasNext(i, a) == i < a.niters

\* ODEfunc.forward: self.nfe += 1
ODEfunc_forward(n) == n + 1

\* the counter after k invocations of the VectorField
Invoke(n, k) ==
  LET RECURSIVE go(_, _)
      go(c, j) == IF j = 0 THEN c ELSE go(ODEfunc_forward(c), j - 1)
  IN go(n, k)

\* faulty variant: the setter leaves the counter as it was
nfe_setter_keep(old, value) == old

\* ODEBlock.nfe setter: self.odefunc.nfe = value
nfe_setter(old, value) == value

\* ODEBlock.forward: integrate with rtol = atol = args.tol, then gather
ODEBlock_forward(p, x, indices, a) == Gather(Endpoint(p, x, a.tol, a.tol), indices)

\* lines 176-177: odeint called on the odefunc with no tolerances, then gather
TestForwardPass(p, x, indices) == Gather(Endpoint(p, x, SolverDefault, SolverDefault), indices)

\* loss.backward(): the gradient of l is added to the pending gradient
Accumulate(g, l, a) == Append(g, [of |-> l, adjoint |-> a.adjoint])

\* faulty variant: the elapsed time is stored in nfe_arr as well
RecordedRow_nfe_time(i, l, n, t0_, t1_) ==
  [itr |-> i, loss |-> ToFloat64(l), nfe |-> t1_ - t0_, time |-> t1_ - t0_]

\* lines 132-135: what one iteration stores at position itr-1 of the four arrays
RecordedRow(i, l, n, t0_, t1_) ==
  [itr |-> i, loss |-> ToFloat64(l), nfe |-> n, time |-> t1_ - t0_]

\* torch.save(model, ...): the parameters and the block's integration metadata
SavedModel(p, indices) == [odefunc |-> p, integration_times |-> <<0, 1>>, indices |-> indices]

\* the solver is a deterministic function of its inputs: the same inputs take the
\* calls they took before; new inputs take one call or more
Extend(f, k, v) == [x \in (DOMAIN f) \cup {k} |-> IF x = k THEN v ELSE f[x]]
CallCounts(key) ==
  IF key \in DOMAIN memo THEN {memo[key]}
  ELSE {1} \cup {n \in 1..(MaxExtraCalls + 1) : extra + n - 1 <= MaxExtraCalls}
ExtraAfter(key, n) == IF key \in DOMAIN memo THEN extra ELSE extra + n - 1
AdjointKey(l) == [op |-> "odeint_adjoint backward", of |-> l]

\* lines 79-87: choose the artifact directory and create it if absent
MakeDirs ==
  /\ pc = "makedirs"
  /\ filename' = ArtifactDir(args)
  /\ dirs' = dirs \cup {ArtifactDir(args)}
  /\ pc' = After(pc)
  /\ UNCHANGED <<args, failure, resultsFile, files, np_seed, rng, torch_seed, now, memo,
                 extra, dim, z0, zN, ids, params, nfe, grad, itr, pred_z, loss, itr_arr,
                 loss_arr, nfe_arr, time_arr, iter_start_time, iter_end_time, results,
                 first_index, calls, callsAtReset, stepLog, tAfterReset, tAfterStep,
                 wcount, vfWidths, solves, loaded, saves, written, prev>>

\* lines 88-97: draw the training batch, its targets, and augment z0
TrainData ==
  /\ pc = "train_data"
  /\ dim' = args.data_dimension + args.extra_dim
  /\ z0' = MakeZ0(rng, args.ntrain, args)
  /\ zN' = MakeZN(rng, args.ntrain, args)
  /\ rng' = RngAfter(rng, args.ntrain * args.data_dimension)
  /\ pc' = After(pc)
  /\ UNCHANGED <<args, failure, resultsFile, dirs, files, np_seed, torch_seed, now,
                 memo, extra, filename, ids, params, nfe, grad, itr, pred_z, loss,
                 itr_arr, loss_arr, nfe_arr, time_arr, iter_start_time, iter_end_time,
                 results, first_index, calls, callsAtReset, stepLog, tAfterReset,
                 tAfterStep, wcount, vfWidths, solves, loaded, saves, written, prev>>

\* lines 100-115: selector, model, optimizer, the four empty metric arrays
Build ==
  /\ pc = "build"
  /\ ids' = MakeIds(args.ntrain, args.data_dimension)
  /\ params' = ODEfunc_init(dim, torch_seed)
  /\ nfe' = 0
  /\ grad' = <<>>
  /\ itr_arr' = np_empty(args.niters)
  /\ loss_arr' = np_empty(args.niters)
  /\ nfe_arr' = np_empty(args.niters)
  /\ time_arr' = np_empty(args.niters)
  /\ wcount' = [k \in 1..args.niters |-> [itr |-> 0, loss |-> 0, nfe |-> 0, time |-> 0]]
  /\ pc' = After(pc)
  /\ UNCHANGED <<args, failure, resultsFile, dirs, files, np_seed, rng, torch_seed, now,
                 memo, extra, filename, dim, z0, zN, itr, pred_z, loss, iter_start_time,
                 iter_end_time, results, first_index, calls, callsAtReset, stepLog,
                 tAfterReset, tAfterStep, vfWidths, solves, loaded, saves, written,
                 prev>>

\* line 119: the for statement takes the next value of range(1, niters+1)
LoopNext ==
  /\ pc = "loop"
  /\ RangeHasNext(itr, args)
  /\ itr' = itr + 1
  /\ stepLog' = <<>>
  /\ pc' = After(pc)
  /\ UNCHANGED <<args, failure, resultsFile, dirs, files, np_seed, rng, torch_seed, now,
                 memo, extra, filename, dim, z0, zN, ids, params, nfe, grad, pred_z,
                 loss, itr_arr, loss_arr, nfe_arr, time_arr, iter_start_time,
                 iter_end_time, results, first_index, calls, callsAtReset, tAfterReset,
                 tAfterStep, wcount, vfWidths, solves, loaded, saves, written, prev>>

\* line 119: the range is exhausted, control passes to the code after the loop
LoopExit ==
  /\ pc = "loop"
  /\ ~RangeHasNext(itr, args)
  /\ pc' = After("record")
  /\ UNCHANGED <<args, failure, resultsFile, dirs, files, np_seed, rng, torch_seed, now,
                 memo, extra, filename, dim, z0, zN, ids, params, nfe, grad, itr,
                 pred_z, loss, itr_arr, loss_arr, nfe_arr, time_arr, iter_start_time,
                 iter_end_time, results, first_index, calls, callsAtReset, stepLog,
                 tAfterReset, tAfterStep, wcount, vfWidths, solves, loaded, saves,
                 written, prev>>

\* line 120: feature_layers[0].nfe = 0
Reset ==
  /\ pc = "reset"
  /\ nfe' = nfe_setter(nfe, 0)
  /\ callsAtReset' = calls
  /\ tAfterReset' = now
  /\ stepLog' = Append(stepLog, "reset")
  /\ pc' = After(pc)
  /\ UNCHANGED <<args, failure, resultsFile, dirs, files, np_seed, rng, torch_seed, now,
                 memo, extra, filename, dim, z0, zN, ids, params, grad, itr, pred_z,
                 loss, itr_arr, loss_arr, nfe_arr, time_arr, iter_start_time,
                 iter_end_time, results, first_index, calls, tAfterStep, wcount,
                 vfWidths, solves, loaded, saves, written, prev>>

\* line 121: iter_start_time = time.time()
TimerStart ==
  /\ pc = "timer_start"
  /\ iter_start_time' = now
  /\ stepLog' = Append(stepLog, "timer_start")
  /\ pc' = After(pc)
  /\ UNCHANGED <<args, failure, resultsFile, dirs, files, np_seed, rng, torch_seed, now,
                 memo, extra, filename, dim, z0, zN, ids, params, nfe, grad, itr,
                 pred_z, loss, itr_arr, loss_arr, nfe_arr, time_arr, iter_end_time,
                 results, first_index, calls, callsAtReset, tAfterReset, tAfterStep,
                 wcount, vfWidths, solves, loaded, saves, written, prev>>

\* line 122: optimizer.zero_grad()
ZeroGrad ==
  /\ pc = "zero_grad"
  /\ grad' = <<>>
  /\ stepLog' = Append(stepLog, "zero_grad")
  /\ pc' = After(pc)
  /\ UNCHANGED <<args, failure, resultsFile, dirs, files, np_seed, rng, torch_seed, now,
                 memo, extra, filename, dim, z0, zN, ids, params, nfe, itr, pred_z,
                 loss, itr_arr, loss_arr, nfe_arr, time_arr, iter_start_time,
                 iter_end_time, results, first_index, calls, callsAtReset, tAfterReset,
                 tAfterStep, wcount, vfWidths, solves, loaded, saves, written, prev>>

\* line 125: pred_z = model(z0); the solver invokes the VectorField n times
Forward ==
  /\ pc = "forward"
  /\ Width(z0) = ParamsDim(params)
  /\ GatherOk(Endpoint(params, z0, args.tol, args.tol), ids)
  /\ \E n \in CallCounts(Endpoint(params, z0, args.tol, args.tol)) :
       /\ nfe' = Invoke(nfe, n)
       /\ calls' = calls + n
       /\ extra' = ExtraAfter(Endpoint(params, z0, args.tol, args.tol), n)
       /\ memo' = Extend(memo, Endpoint(params, z0, args.tol, args.tol), n)
  /\ vfWidths' = vfWidths \cup {Width(z0)}
  /\ solves' = Append(solves, [phase |-> "train", rtol |-> args.tol, atol |-> args.tol,
                               t0 |-> 0, tN |-> 1, steps |-> Steps(params)])
  /\ pred_z' = ODEBlock_forward(params, z0, ids, args)
  /\ stepLog' = Append(stepLog, "forward")
  /\ pc' = After(pc)
  /\ UNCHANGED <<args, failure, resultsFile, dirs, files, np_seed, rng, torch_seed, now,
                 filename, dim, z0, zN, ids, params, grad, itr, loss, itr_arr, loss_arr,
                 nfe_arr, time_arr, iter_start_time, iter_end_time, results,
                 first_index, callsAtReset, tAfterReset, tAfterStep, wcount, loaded,
                 saves, written, prev>>

\* line 127: loss = loss_func(pred_z, zN)
Loss ==
  /\ pc = "loss"
  /\ loss' = MSELoss(pred_z, zN)
  /\ stepLog' = Append(stepLog, "loss")
  /\ pc' = After(pc)
  /\ UNCHANGED <<args, failure, resultsFile, dirs, files, np_seed, rng, torch_seed, now,
                 memo, extra, filename, dim, z0, zN, ids, params, nfe, grad, itr,
                 pred_z, itr_arr, loss_arr, nfe_arr, time_arr, iter_start_time,
                 iter_end_time, results, first_index, calls, callsAtReset, tAfterReset,
                 tAfterStep, wcount, vfWidths, solves, loaded, saves, written, prev>>

\* line 128: loss.backward() through the solver's own steps, no VectorField call
BackwardDirect ==
  /\ pc = "backward"
  /\ ~args.adjoint
  /\ grad' = Accumulate(grad, loss, args)
  /\ stepLog' = Append(stepLog, "backward")
  /\ pc' = After(pc)
  /\ UNCHANGED <<args, failure, resultsFile, dirs, files, np_seed, rng, torch_seed, now,
                 memo, extra, filename, dim, z0, zN, ids, params, nfe, itr, pred_z,
                 loss, itr_arr, loss_arr, nfe_arr, time_arr, iter_start_time,
                 iter_end_time, results, first_index, calls, callsAtReset, tAfterReset,
                 tAfterStep, wcount, vfWidths, solves, loaded, saves, written, prev>>

\* line 128 with --adjoint: the reverse-time solve invokes the VectorField
BackwardAdjoint ==
  /\ pc = "backward"
  /\ args.adjoint
  /\ grad' = Accumulate(grad, loss, args)
  /\ \E n \in CallCounts(AdjointKey(loss)) :
       /\ nfe' = Invoke(nfe, n)
       /\ calls' = calls + n
       /\ extra' = ExtraAfter(AdjointKey(loss), n)
       /\ memo' = Extend(memo, AdjointKey(loss), n)
  /\ vfWidths' = vfWidths \cup {Width(z0)}
  /\ stepLog' = Append(stepLog, "backward")
  /\ pc' = After(pc)
  /\ UNCHANGED <<args, failure, resultsFile, dirs, files, np_seed, rng, torch_seed, now,
                 filename, dim, z0, zN, ids, params, itr, pred_z, loss, itr_arr,
                 loss_arr, nfe_arr, time_arr, iter_start_time, iter_end_time, results,
                 first_index, callsAtReset, tAfterReset, tAfterStep, wcount, solves,
                 loaded, saves, written, prev>>

\* line 128: loss.backward()
Backward == BackwardDirect \/ BackwardAdjoint

\* line 129: optimizer.step()
Step ==
  /\ pc = "step"
  /\ params' = AdamStep(params, grad, args.lr)
  /\ tAfterStep' = now
  /\ stepLog' = Append(stepLog, "step")
  /\ pc' = After(pc)
  /\ UNCHANGED <<args, failure, resultsFile, dirs, files, np_seed, rng, torch_seed, now,
                 memo, extra, filename, dim, z0, zN, ids, nfe, grad, itr, pred_z, loss,
                 itr_arr, loss_arr, nfe_arr, time_arr, iter_start_time, iter_end_time,
                 results, first_index, calls, callsAtReset, tAfterReset, wcount,
                 vfWidths, solves, loaded, saves, written, prev>>

\* line 130: iter_end_time = time.time()
TimerStop ==
  /\ pc = "timer_stop"
  /\ iter_end_time' = now
  /\ stepLog' = Append(stepLog, "timer_stop")
  /\ pc' = After(pc)
  /\ UNCHANGED <<args, failure, resultsFile, dirs, files, np_seed, rng, torch_seed, now,
                 memo, extra, filename, dim, z0, zN, ids, params, nfe, grad, itr,
                 pred_z, loss, itr_arr, loss_arr, nfe_arr, time_arr, iter_start_time,
                 results, first_index, calls, callsAtReset, tAfterReset, tAfterStep,
                 wcount, vfWidths, solves, loaded, saves, written, prev>>

\* lines 132-137: store the iteration's row in the four arrays, back to the for statement
Record ==
  /\ pc = "record"
  /\ LET row == RecordedRow(itr, loss, nfe, iter_start_time, iter_end_time) IN
       /\ itr_arr' = Store(itr_arr, itr, row.itr)
       /\ loss_arr' = Store(loss_arr, itr, row.loss)
       /\ nfe_arr' = Store(nfe_arr, itr, row.nfe)
       /\ time_arr' = Store(time_arr, itr, row.time)
  /\ wcount' = [wcount EXCEPT ![itr] = [itr |-> @.itr + 1, loss |-> @.loss + 1,
                                          nfe |-> @.nfe + 1, time |-> @.time + 1]]
  /\ stepLog' = Append(stepLog, "record")
  /\ pc' = "loop"
  /\ UNCHANGED <<args, failure, resultsFile, dirs, files, np_seed, rng, torch_seed, now,
                 memo, extra, filename, dim, z0, zN, ids, params, nfe, grad, itr,
                 pred_z, loss, iter_start_time, iter_end_time, results, first_index,
                 calls, callsAtReset, tAfterReset, tAfterStep, vfWidths, solves, loaded,
                 saves, written, prev>>

\* lines 140-141: results = np.load('results.npy')
LoadFound ==
  /\ pc = "load"
  /\ resultsFile # Missing
  /\ results' = resultsFile
  /\ loaded' = resultsFile
  /\ pc' = After(pc)
  /\ UNCHANGED <<args, failure, resultsFile, dirs, files, np_seed, rng, torch_seed, now,
                 memo, extra, filename, dim, z0, zN, ids, params, nfe, grad, itr,
                 pred_z, loss, itr_arr, loss_arr, nfe_arr, time_arr, iter_start_time,
                 iter_end_time, first_index, calls, callsAtReset, stepLog, tAfterReset,
                 tAfterStep, wcount, vfWidths, solves, saves, written, prev>>

\* line 141: np.load raises FileNotFoundError, the run ends
LoadMissing ==
  /\ pc = "load"
  /\ resultsFile = Missing
  /\ failure' = "FileNotFoundError"
  /\ pc' = "failed"
  /\ UNCHANGED <<args, resultsFile, dirs, files, np_seed, rng, torch_seed, now, memo,
                 extra, filename, dim, z0, zN, ids, params, nfe, grad, itr, pred_z,
                 loss, itr_arr, loss_arr, nfe_arr, time_arr, iter_start_time,
                 iter_end_time, results, first_index, calls, callsAtReset, stepLog,
                 tAfterReset, tAfterStep, wcount, vfWidths, solves, loaded, saves,
                 written, prev>>

\* lines 140-141
Load == LoadFound \/ LoadMissing

\* lines 142-148: first_index from extra_dim
SetFirstIndex ==
  /\ pc = "first_index"
  /\ first_index' = FirstIndex(args)
  /\ pc' = After(pc)
  /\ UNCHANGED <<args, failure, resultsFile, dirs, files, np_seed, rng, torch_seed, now,
                 memo, extra, filename, dim, z0, zN, ids, params, nfe, grad, itr,
                 pred_z, loss, itr_arr, loss_arr, nfe_arr, time_arr, iter_start_time,
                 iter_end_time, results, calls, callsAtReset, stepLog, tAfterReset,
                 tAfterStep, wcount, vfWidths, solves, loaded, saves, written, prev>>

\* lines 149-153: the loss of the held prediction goes into the train cell
TrainLossStored ==
  /\ pc = "train_loss"
  /\ ResultCell(first_index, 0, args) \in DOMAIN results
  /\ loss' = MSELoss(pred_z, zN)
  /\ results' = [results EXCEPT ![ResultCell(first_index, 0, args)] = ToFloat64(MSELoss(pred_z, zN))]
  /\ pc' = After(pc)
  /\ UNCHANGED <<args, failure, resultsFile, dirs, files, np_seed, rng, torch_seed, now,
                 memo, extra, filename, dim, z0, zN, ids, params, nfe, grad, itr,
                 pred_z, itr_arr, loss_arr, nfe_arr, time_arr, iter_start_time,
                 iter_end_time, first_index, calls, callsAtReset, stepLog, tAfterReset,
                 tAfterStep, wcount, vfWidths, solves, loaded, saves, written, prev>>

\* line 150: the index is outside the results array, the run ends
TrainLossIndexError ==
  /\ pc = "train_loss"
  /\ ResultCell(first_index, 0, args) \notin DOMAIN results
  /\ loss' = MSELoss(pred_z, zN)
  /\ failure' = "IndexError"
  /\ pc' = "failed"
  /\ UNCHANGED <<args, resultsFile, dirs, files, np_seed, rng, torch_seed, now, memo,
                 extra, filename, dim, z0, zN, ids, params, nfe, grad, itr, pred_z,
                 itr_arr, loss_arr, nfe_arr, time_arr, iter_start_time, iter_end_time,
                 results, first_index, calls, callsAtReset, stepLog, tAfterReset,
                 tAfterStep, wcount, vfWidths, solves, loaded, saves, written, prev>>

\* lines 149-153
TrainLoss == TrainLossStored \/ TrainLossIndexError

\* lines 155-159: the four arrays and the model are written under filename
SaveArtifacts ==
  /\ pc = "save_artifacts"
  /\ filename \in dirs
  /\ LET new == [p \in {filename} \X ArtifactNames |->
                  CASE p[2] = "itr_arr.npy" -> [array |-> itr_arr]
                    [] p[2] = "nfe_arr.npy" -> [array |-> nfe_arr]
                    [] p[2] = "loss_arr.npy" -> [array |-> loss_arr]
                    [] p[2] = "time_arr.npy" -> [array |-> time_arr]
                    [] OTHER -> [model |-> SavedModel(params, ids)]] IN
       /\ files' = [p \in (DOMAIN files) \cup (DOMAIN new) |->
                      IF p \in DOMAIN new THEN new[p] ELSE files[p]]
       /\ written' = written \cup DOMAIN new
  /\ pc' = After(pc)
  /\ UNCHANGED <<args, failure, resultsFile, dirs, np_seed, rng, torch_seed, now, memo,
                 extra, filename, dim, z0, zN, ids, params, nfe, grad, itr, pred_z,
                 loss, itr_arr, loss_arr, nfe_arr, time_arr, iter_start_time,
                 iter_end_time, results, first_index, calls, callsAtReset, stepLog,
                 tAfterReset, tAfterStep, wcount, vfWidths, solves, loaded, saves, prev>>

\* lines 163-173: draw the test batch, its targets, augment, rebuild the selector
TestData ==
  /\ pc = "test_data"
  /\ z0' = MakeZ0(rng, args.ntest, args)
  /\ zN' = MakeZN(rng, args.ntest, args)
  /\ rng' = RngAfter(rng, args.ntest * args.data_dimension)
  /\ ids' = MakeIds(args.ntest, args.data_dimension)
  /\ pc' = After(pc)
  /\ UNCHANGED <<args, failure, resultsFile, dirs, files, np_seed, torch_seed, now,
                 memo, extra, filename, dim, params, nfe, grad, itr, pred_z, loss,
                 itr_arr, loss_arr, nfe_arr, time_arr, iter_start_time, iter_end_time,
                 results, first_index, calls, callsAtReset, stepLog, tAfterReset,
                 tAfterStep, wcount, vfWidths, solves, loaded, saves, written, prev>>

\* lines 176-177: odeint on the trained odefunc, then gather
TestForward ==
  /\ pc = "test_forward"
  /\ Width(z0) = ParamsDim(params)
  /\ GatherOk(Endpoint(params, z0, SolverDefault, SolverDefault), ids)
  /\ \E n \in CallCounts(Endpoint(params, z0, SolverDefault, SolverDefault)) :
       /\ nfe' = Invoke(nfe, n)
       /\ calls' = calls + n
       /\ extra' = ExtraAfter(Endpoint(params, z0, SolverDefault, SolverDefault), n)
       /\ memo' = Extend(memo, Endpoint(params, z0, SolverDefault, SolverDefault), n)
  /\ vfWidths' = vfWidths \cup {Width(z0)}
  /\ solves' = Append(solves, [phase |-> "test", rtol |-> SolverDefault, atol |-> SolverDefault,
                               t0 |-> 0, tN |-> 1, steps |-> Steps(params)])
  /\ pred_z' = TestForwardPass(params, z0, ids)
  /\ pc' = After(pc)
  /\ UNCHANGED <<args, failure, resultsFile, dirs, files, np_seed, rng, torch_seed, now,
                 filename, dim, z0, zN, ids, params, grad, itr, loss, itr_arr, loss_arr,
                 nfe_arr, time_arr, iter_start_time, iter_end_time, results,
                 first_index, callsAtReset, stepLog, tAfterReset, tAfterStep, wcount,
                 loaded, saves, written, prev>>

\* lines 180-182: the test loss goes into the test cell
TestLoss ==
  /\ pc = "test_loss"
  /\ ResultCell(first_index, 1, args) \in DOMAIN results
  /\ loss' = MSELoss(pred_z, zN)
  /\ results' = [results EXCEPT ![ResultCell(first_index, 1, args)] = ToFloat64(MSELoss(pred_z, zN))]
  /\ pc' = After(pc)
  /\ UNCHANGED <<args, failure, resultsFile, dirs, files, np_seed, rng, torch_seed, now,
                 memo, extra, filename, dim, z0, zN, ids, params, nfe, grad, itr,
                 pred_z, itr_arr, loss_arr, nfe_arr, time_arr, iter_start_time,
                 iter_end_time, first_index, calls, callsAtReset, stepLog, tAfterReset,
                 tAfterStep, wcount, vfWidths, solves, loaded, saves, written, prev>>

\* line 183: np.save('results.npy', results), the process exits
SaveResults ==
  /\ pc = "save_results"
  /\ resultsFile' = results
  /\ saves' = saves + 1
  /\ pc' = After(pc)
  /\ UNCHANGED <<args, failure, dirs, files, np_seed, rng, torch_seed, now, memo, extra,
                 filename, dim, z0, zN, ids, params, nfe, grad, itr, pred_z, loss,
                 itr_arr, loss_arr, nfe_arr, time_arr, iter_start_time, iter_end_time,
                 results, first_index, calls, callsAtReset, stepLog, tAfterReset,
                 tAfterStep, wcount, vfWidths, solves, loaded, written, prev>>

\* wall-clock time passes while a statement of the loop body runs
Tick ==
  /\ pc \in TickPcs
  /\ now < MaxClock
  /\ now' = now + 1
  /\ UNCHANGED <<args, pc, failure, resultsFile, dirs, files, np_seed, rng, torch_seed,
                 memo, extra, filename, dim, z0, zN, ids, params, nfe, grad, itr,
                 pred_z, loss, itr_arr, loss_arr, nfe_arr, time_arr, iter_start_time,
                 iter_end_time, results, first_index, calls, callsAtReset, stepLog,
                 tAfterReset, tAfterStep, wcount, vfWidths, solves, loaded, saves,
                 written, prev>>

Next ==
  \/ MakeDirs \/ TrainData \/ Build \/ LoopNext \/ LoopExit
  \/ Reset \/ TimerStart \/ ZeroGrad \/ Forward \/ Loss \/ Backward \/ Step
  \/ TimerStop \/ Record
  \/ Load \/ SetFirstIndex \/ TrainLoss \/ SaveArtifacts
  \/ TestData \/ TestForward \/ TestLoss \/ SaveResults
  \/ Tick

Spec == Init /\ [][Next]_vars

\* a run has completed; the same script is started again on the same disk
Rerun ==
  /\ pc = "done"
  /\ prev = NoneVal
  /\ prev' = [args |-> args, np_seed |-> np_seed, torch_seed |-> torch_seed, pc |-> pc,
              itr_arr |-> itr_arr, loss_arr |-> loss_arr, nfe_arr |-> nfe_arr,
              time_arr |-> time_arr, files |-> files, resultsFile |-> resultsFile,
              written |-> written, loaded |-> loaded]
  /\ args' \in {args, [args EXCEPT !.extra_dim = IF @ = 0 THEN MaxExtra ELSE 0]}
  /\ np_seed' \in 1..MaxSeed
  /\ rng' = np_seed'
  /\ pc' = Order[1]
  /\ failure' = "none"
  /\ filename' = NoneVal /\ dim' = NoneVal /\ z0' = NoneVal /\ zN' = NoneVal /\ ids' = NoneVal
  /\ params' = NoneVal /\ nfe' = 0 /\ grad' = <<>> /\ itr' = 0
  /\ pred_z' = NoneVal /\ loss' = NoneVal
  /\ itr_arr' = NoneVal /\ loss_arr' = NoneVal /\ nfe_arr' = NoneVal /\ time_arr' = NoneVal
  /\ iter_start_time' = NoneVal /\ iter_end_time' = NoneVal
  /\ results' = NoneVal /\ first_index' = NoneVal
  /\ calls' = 0 /\ callsAtReset' = 0 /\ stepLog' = <<>>
  /\ tAfterReset' = 0 /\ tAfterStep' = 0
  /\ wcount' = <<>> /\ vfWidths' = {} /\ solves' = <<>>
  /\ loaded' = <<>> /\ saves' = 0 /\ written' = {}
  /\ UNCHANGED <<resultsFile, dirs, files, torch_seed, now, memo, extra>>

NextPair == Next \/ Rerun

SpecPair == InitPair /\ [][NextPair]_vars

\* ------------------------------------------------------------- claims
BodyPcs == {"reset", "timer_start", "zero_grad", "forward", "loss", "backward", "step",
            "timer_stop", "record"}
PostLoopPcs == {"load", "first_index", "train_loss", "save_artifacts", "test_data",
                "test_forward", "test_loss", "save_results", "done", "failed"}
Built == pc \in BodyPcs \cup PostLoopPcs \cup {"loop"}

\* iteration k has run to its end, its row recorded
Recorded(k) == k < itr \/ (k = itr /\ pc \notin BodyPcs)
OnceEach == [itr |-> 1, loss |-> 1, nfe |-> 1, time |-> 1]
NotYet == [itr |-> 0, loss |-> 0, nfe |-> 0, time |-> 0]

\* the statements of one iteration, timer reads included
FullLog == <<"reset", "timer_start", "zero_grad", "forward", "loss", "backward", "step",
             "timer_stop", "record">>

TrainCell == ResultCell(FirstIndex(args), 0, args)
TestCell == ResultCell(FirstIndex(args), 1, args)

\* C1: the loop runs exactly niters iterations; after it the four metric arrays
\* have length niters, every position k was written exactly once, by iteration
\* k, and itr_arr holds k at position k.
Thm_C1 ==
  /\ itr \in 0..args.niters
  /\ Built =>
       /\ itr_arr.len = args.niters /\ loss_arr.len = args.niters
       /\ nfe_arr.len = args.niters /\ time_arr.len = args.niters
       /\ \A k \in 1..args.niters :
            /\ wcount[k] = IF Recorded(k) THEN OnceEach ELSE NotYet
            /\ Recorded(k) =>
                 /\ k \in Written(itr_arr) /\ k \in Written(loss_arr)
                 /\ k \in Written(nfe_arr) /\ k \in Written(time_arr)
                 /\ itr_arr.data[k] = k
            /\ ~Recorded(k) => k \notin Written(itr_arr) \cup Written(loss_arr)
                                   \cup Written(nfe_arr) \cup Written(time_arr)
  /\ pc \in PostLoopPcs =>
       /\ itr = args.niters
       /\ Written(itr_arr) = 1..args.niters /\ Written(loss_arr) = 1..args.niters
       /\ Written(nfe_arr) = 1..args.niters /\ Written(time_arr) = 1..args.niters

Wit_C1 == pc = "done" /\ args.niters = 2 /\ itr_arr.data = <<1, 2>>

\* C2: inside an iteration the statements run in the order reset, (timer start),
\* zero_grad, forward, loss, backward, step, (timer stop), record, each once; a
\* recorded iteration has cleared the pending gradient, integrated once from the
\* parameters it started with, taken one optimizer step, and its recorded time
\* is the time from the end of the reset to the end of the optimizer step; an
\* iteration starts only when all earlier ones are recorded.
Thm_C2 ==
  /\ pc \in BodyPcs =>
       /\ stepLog = SubSeq(FullLog, 1, Len(stepLog))
       /\ Len(stepLog) < Len(FullLog)
       /\ pc = FullLog[Len(stepLog) + 1]
       /\ Written(itr_arr) = 1..(itr - 1)
  /\ (pc = "loop" /\ itr >= 1) =>
       /\ stepLog = FullLog
       /\ grad = <<[of |-> loss, adjoint |-> args.adjoint]>>
       /\ loss = MSELoss(pred_z, zN)
       /\ pred_z = ODEBlock_forward(params.prev, z0, ids, args)
       /\ params = AdamStep(params.prev, grad, args.lr)
       /\ Steps(params) = itr
       /\ Len(solves) = itr
       /\ loss_arr.data[itr] = ToFloat64(loss)
       /\ time_arr.data[itr] = tAfterStep - tAfterReset

Wit_C2 == pc = "loop" /\ itr = 2 /\ time_arr.data[2] = 1 /\ now = 1

\* C3: the call count recorded for an iteration is the number of VectorField
\* invocations made during that iteration alone; the counter is zero after the
\* reset and before the forward pass; each invocation adds exactly one.
Thm_C3 ==
  /\ pc \in {"timer_start", "zero_grad", "forward"} => nfe = 0
  /\ pc \in BodyPcs \ {"reset"} => nfe = calls - callsAtReset
  /\ (pc = "loop" /\ itr >= 1) => nfe_arr.data[itr] = calls - callsAtReset

Wit_C3 ==
  /\ pc = "loop" /\ itr = 2 /\ args.adjoint
  /\ nfe_arr.data[1] = 2 /\ nfe_arr.data[2] = 3 /\ calls = 5

\* the columns of a row after the data columns are zero
ZeroTail(row, a) == \A j \in (a.data_dimension + 1)..Len(row) : row[j] = 0

\* C4: in the training and the test phase the state handed to the VectorField
\* has width data_dimension + extra_dim (data columns, then extra_dim zero
\* columns), the selector is 0..data_dimension-1 in every row, and the
\* prediction compared with the target has width data_dimension.
Thm_C4 ==
  /\ vfWidths \subseteq {args.data_dimension + args.extra_dim}
  /\ pc \notin {"makedirs", "train_data"} =>
       /\ Width(z0) = args.data_dimension + args.extra_dim
       /\ Width(zN) = args.data_dimension
       /\ \A i \in 1..Len(z0) :
            /\ ZeroTail(z0[i], args)
            /\ \A j \in 1..args.data_dimension : zN[i][j] = z0[i][j] * args.scale_factor
  /\ Built =>
       /\ Rows(ids) = Rows(z0)
       /\ \A i \in 1..Len(ids) : ids[i] = [j \in 1..args.data_dimension |-> j - 1]
  /\ \A ph \in {"train", "test"} :
       (\E i \in 1..Len(solves) : solves[i].phase = ph) =>
          args.data_dimension + args.extra_dim \in vfWidths
  /\ pc \in {"loss", "test_loss"} =>
       /\ PredWidth(pred_z) = args.data_dimension
       /\ PredRows(pred_z) = Rows(zN)
       /\ Width(pred_z.src.y0) = args.data_dimension + args.extra_dim
       /\ PredWidth(pred_z) = Width(zN)

Wit_C4 ==
  /\ pc = "test_loss" /\ args.extra_dim = 1 /\ args.data_dimension = 2
  /\ Len(solves) >= 2 /\ vfWidths = {3}

\* C6: a completed run leaves results.npy with the shape it loaded and with
\* every cell as loaded except [a][0][data_dimension-1][experiment_no-1], which
\* holds the train loss, and [a][1][data_dimension-1][experiment_no-1], which
\* holds the test loss, a = 0 for extra_dim = 0 and 1 otherwise.
Thm_C6 ==
  /\ pc \in {"first_index", "train_loss"} => results = loaded
  /\ pc \in {"save_artifacts", "test_data", "test_forward", "test_loss"} =>
       /\ DOMAIN results = DOMAIN loaded
       /\ \A c \in DOMAIN loaded : c # TrainCell => results[c] = loaded[c]
  /\ pc = "done" =>
       /\ DOMAIN resultsFile = DOMAIN loaded
       /\ TrainCell[1] = (IF args.extra_dim = 0 THEN 0 ELSE 1)
       /\ TrainCell[1] = TestCell[1]
       /\ \A c \in DOMAIN loaded :
            c \notin {TrainCell, TestCell} => resultsFile[c] = loaded[c]
       /\ resultsFile[TrainCell] = loss_arr.data[args.niters]
       /\ resultsFile[TestCell] = ToFloat64(loss)
       /\ loss = MSELoss(pred_z, zN) /\ pred_z.src.y0 = z0 /\ Rows(z0) = args.ntest
       /\ resultsFile[TrainCell] # loaded[TrainCell]
       /\ resultsFile[TestCell] # loaded[TestCell]

Wit_C6 == pc = "done" /\ args.data_dimension = 2 /\ args.extra_dim = 1

\* C7 as stated: results.npy is read before any training iteration, so a
\* missing file ends the run before any training work.
CE_C7 ==
  /\ itr >= 1 => DOMAIN loaded # {}
  /\ failure = "FileNotFoundError" => itr = 0

\* C7 amended: results.npy is read once, after the last training iteration
\* was recorded and before any artifact file is written; it is written once,
\* as the last statement, after both cells were set; a missing file ends the
\* run after all niters iterations and before any artifact file is written.
Thm_C7 ==
  /\ DOMAIN loaded # {} => (itr = args.niters /\ Written(itr_arr) = 1..args.niters)
  /\ written # {} => DOMAIN loaded # {}
  /\ saves = (IF pc = "done" THEN 1 ELSE 0)
  /\ pc = "done" =>
       /\ resultsFile = results
       /\ results[TrainCell] = loss_arr.data[args.niters]
       /\ results[TestCell] = ToFloat64(loss)
  /\ failure = "FileNotFoundError" =>
       /\ itr = args.niters /\ Written(itr_arr) = 1..args.niters
       /\ Steps(params) = args.niters
       /\ written = {} /\ files = <<>> /\ resultsFile = Missing

Wit_C7 == failure = "FileNotFoundError" /\ itr = 2 /\ Steps(params) = 2

\* C8 as stated: the test evaluation integrates over (0, 1) with args.tol as
\* relative and absolute tolerance, as a training forward pass does, and
\* leaves the parameters as the last optimizer step left them.
CE_C8 ==
  \A i \in 1..Len(solves) :
     solves[i].phase = "test" =>
        /\ solves[i].t0 = 0 /\ solves[i].tN = 1
        /\ solves[i].rtol = args.tol /\ solves[i].atol = args.tol
        /\ solves[i].steps = args.niters
        /\ pred_z = ODEBlock_forward(params, z0, ids, args)

\* C9: the train cell receives the loss of the last iteration's prediction:
\* no forward integration and no VectorField call happens between the last
\* record and the write, the value equals loss_arr[niters-1], and it was
\* computed from the parameters as they were before the niters-th step.
Thm_C9 ==
  /\ pc \in {"load", "first_index", "train_loss", "save_artifacts"} =>
       /\ Len(solves) = args.niters
       /\ nfe = nfe_arr.data[args.niters]
       /\ calls - callsAtReset = nfe
  /\ pc = "save_artifacts" =>
       /\ results[TrainCell] = loss_arr.data[args.niters]
       /\ results[TrainCell].of.input.src.func = params.prev
       /\ Steps(results[TrainCell].of.input.src.func) = args.niters - 1
       /\ Steps(params) = args.niters
  /\ pc = "done" => resultsFile[TrainCell] = loss_arr.data[args.niters]

Wit_C9 == pc = "save_artifacts" /\ args.niters = 2 /\ Steps(params) = 2

\* the run before this one, and this one, differ in being augmented
OnePlainOneAugmented ==
  /\ prev # NoneVal
  /\ (prev.args.extra_dim = 0) # (args.extra_dim = 0)
  /\ \A f \in (DOMAIN args) \ {"extra_dim"} : prev.args[f] = args[f]
PrevCells == {ResultCell(FirstIndex(prev.args), 0, prev.args),
              ResultCell(FirstIndex(prev.args), 1, prev.args)}

\* C5: a plain and an augmented run, otherwise equal, write their artifact
\* files to different directories and their losses to cells with first index 0
\* (plain) and 1 (augmented): the later run leaves every artifact file and
\* every results cell of the earlier run as the earlier run wrote it.
Thm_C5 ==
  /\ \A p \in written : p[1] = (IF args.extra_dim = 0 THEN NodeDir ELSE AnodeDir)
  /\ \A c \in DOMAIN loaded :
       (pc = "done" /\ resultsFile[c] # loaded[c]) =>
            c[1] = (IF args.extra_dim = 0 THEN 0 ELSE 1)
  /\ OnePlainOneAugmented =>
       /\ written \cap prev.written = {}
       /\ \A p \in prev.written : p \in DOMAIN files /\ files[p] = prev.files[p]
       /\ \A c \in PrevCells :
            /\ resultsFile[c] = prev.resultsFile[c]
            /\ pc \in {"first_index", "train_loss", "save_artifacts", "test_data",
                       "test_forward", "test_loss", "save_results"} =>
                  results[c] = prev.resultsFile[c]
            /\ c \notin {TrainCell, TestCell}

Wit_C5 ==
  /\ OnePlainOneAugmented /\ pc = "done" /\ prev.pc = "done"
  /\ prev.args.extra_dim = 0 /\ args.extra_dim = 1
  /\ Cardinality(written) = 5 /\ Cardinality(prev.written) = 5
  /\ Cardinality(DOMAIN files) = 10

\* two runs given the same command line, generator state and initial parameters
SameInputs ==
  /\ prev # NoneVal
  /\ prev.args = args /\ prev.np_seed = np_seed /\ prev.torch_seed = torch_seed

\* C10 as stated: the two runs record the same iteration indices, losses,
\* call counts and durations.
CE_C10 ==
  (SameInputs /\ pc = "done") =>
     /\ itr_arr = prev.itr_arr /\ loss_arr = prev.loss_arr
     /\ nfe_arr = prev.nfe_arr /\ time_arr = prev.time_arr

\* C10 amended: the two runs record the same iteration indices, losses and
\* call counts (the solver, autograd and the optimizer being functions of
\* their inputs); the durations are wall-clock readings and may differ.
Thm_C10 ==
  (SameInputs /\ pc \in PostLoopPcs) =>
     /\ itr_arr = prev.itr_arr /\ loss_arr = prev.loss_arr
     /\ nfe_arr = prev.nfe_arr

Wit_C10 ==
  /\ SameInputs /\ pc = "done" /\ prev.pc = "done" /\ args.niters = 2
  /\ time_arr # prev.time_arr /\ nfe_arr.data[2] = 2

====
